---- MODULE Spec2Model ----
(***************************************************************************)
(* A model of src/langinfo.py: the LangInfo classes, the Database that     *)
(* registers them, the lookup tables it derives and the queries it answers.*)
(*                                                                         *)
(* Python strings (language names, extensions, doctype ids, the bytes of a *)
(* file head) are sequences of character codes, so that str.lower(),       *)
(* slicing and struct decoding are computed and not assumed.  A value that *)
(* may be None is a sequence of length 0 or 1: None is the empty one.      *)
(***************************************************************************)
EXTENDS Integers, Sequences, FiniteSets, TLC

VARIABLES
    platform,                  \* sys.platform
    pc,                        \* "init": Database.__init__ is loading; "ready": it returned
    _langinfo_from_norm_lang,   \* Database._langinfo_from_norm_lang
    values_order,              \* the order in which that dict's values() iterates
    load_order,                \* history: the dict's keys, least recently registered first
    _langinfo_from_ext,         \* Database._langinfo_from_ext          (None until built)
    _langinfo_from_filename,    \* Database._langinfo_from_filename
    _langinfo_from_filename_re, \* Database._langinfo_from_filename_re
    _magic_table,               \* Database._magic_table
    _li_from_doctype_public_id, \* Database._li_from_doctype_public_id
    _li_from_doctype_system_id, \* Database._li_from_doctype_system_id
    _li_from_emacs_mode,        \* Database._li_from_emacs_mode
    threads,                   \* the threads inside langinfo_from_ext: where each is, its locals
    dirs,                      \* the list the caller passes to Database(dirs), None for none
    result                     \* what the last operation was and what it returned or raised

tables == <<_langinfo_from_ext, _langinfo_from_filename, _langinfo_from_filename_re,
            _magic_table, _li_from_doctype_public_id, _li_from_doctype_system_id,
            _li_from_emacs_mode>>

vars == <<platform, pc, _langinfo_from_norm_lang, values_order, load_order,
          _langinfo_from_ext, _langinfo_from_filename, _langinfo_from_filename_re,
          _magic_table, _li_from_doctype_public_id, _li_from_doctype_system_id,
          _li_from_emacs_mode, threads, dirs, result>>

-----------------------------------------------------------------------------
(* Bounds of the model.                                                    *)

\* The interpreter's limit on nested calls (sys.getrecursionlimit()), scaled
\* down: the deepest chain of nested conforms_to / conformant_attr calls.
RecursionLimit == 6

\* The longest head_bytes a magic query is given.
MaxHead == 3

\* The threads that call into one Database at the same time.
MaxThreads == 2

\* The longest list of directories a caller passes to Database(dirs).
MaxDirs == 4

Threads == 1..MaxThreads

-----------------------------------------------------------------------------
(* Python values.                                                          *)

None == <<>>

Some(v) == <<v>>

\* str.lower() on ASCII: 'A'..'Z' (65..90) become 'a'..'z'.
Lower(s) == [i \in DOMAIN s |-> IF s[i] \in 65..90 THEN s[i] + 32 ELSE s[i]]

\* x in seq
InSeq(x, seq) == \E i \in DOMAIN seq : seq[i] = x

\* A slice that takes the entry at end too.
Slice_with_its_end(seq, start, end) ==
    LET lo == IF start > Len(seq) THEN Len(seq) ELSE start
        hi == IF end + 1 > Len(seq) THEN Len(seq) ELSE end + 1
    IN  IF hi <= lo THEN <<>> ELSE SubSeq(seq, lo + 1, hi)

\* seq[start:end] for 0 <= start, 0 <= end: Python clamps both to len(seq).
Slice(seq, start, end) ==
    LET lo == IF start > Len(seq) THEN Len(seq) ELSE start
        hi == IF end > Len(seq) THEN Len(seq) ELSE end
    IN  IF hi <= lo THEN <<>> ELSE SubSeq(seq, lo + 1, hi)

Perms(S) ==
    {p \in [1..Cardinality(S) -> S] : \A i, j \in DOMAIN p : p[i] = p[j] => i = j}

\* seq without the entries equal to x
Without(seq, x) == SelectSeq(seq, LAMBDA e : e # x)

\* A filename pattern that is a string, and one that is a compiled regex.
Str(s) == [kind |-> "str", s |-> s]

Regex(anchored, lit) == [kind |-> "regex", anchored |-> anchored, lit |-> lit]

\* The names used by the model, as Python strings.
Text == <<84, 101, 120, 116>>
text == <<116, 101, 120, 116>>
NameA == <<65>>
NameB == <<66>>
Ghost == <<71>>
utf8 == <<117, 56>>
ascii == <<97, 55>>

-----------------------------------------------------------------------------
(* LangInfo: the class attributes.  The list attributes default to None    *)
(* and every use of them tests their truth first, so None and the empty    *)
(* list are one value here, the empty sequence.                            *)

LangInfo ==
    [name |-> None, exts |-> <<>>, filename_patterns |-> <<>>, magic_numbers |-> <<>>,
     doctypes |-> <<>>, emacs_modes |-> <<>>, default_encoding |-> None,
     encoding_decl_pattern |-> None, conforms_to_bases |-> <<>>]

\* A subclass that sets its name (a class whose name stays None holds None).
Named(n) == [LangInfo EXCEPT !.name = n]

\* exts = ['.txt', '.text'];
\* filename_patterns = ["README", "COPYING", "LICENSE", "MANIFEST"]
TextLangInfo ==
    [Named(Text) EXCEPT
        !.exts = << <<46, 116, 120, 116>>, <<46, 116, 101, 120, 116>> >>,
        !.filename_patterns = << Str(<<82, 69, 65, 68, 77, 69>>),
                                 Str(<<67, 79, 80, 89, 73, 78, 71>>),
                                 Str(<<76, 73, 67, 69, 78, 83, 69>>),
                                 Str(<<77, 65, 78, 73, 70, 69, 83, 84>>) >>]

-----------------------------------------------------------------------------
(* Database: name resolution.                                              *)

_norm_lang_from_lang(lang) == Lower(lang)

\* A call's outcome: what it returned, or the exception it raised.
Return(v) == [raised |-> None, val |-> v]

Raise(e) == [raised |-> Some(e), val |-> None]

\* langinfo_from_lang without the normalization of its argument.
langinfo_from_lang_as_given(db, lang) ==
    IF lang \notin DOMAIN db
    THEN Raise("LangInfoError")
    ELSE Return(db[lang])

langinfo_from_lang(db, lang) ==
    LET norm_lang == _norm_lang_from_lang(lang)
    IN  IF norm_lang \notin DOMAIN db
        THEN Raise("LangInfoError")
        ELSE Return(db[norm_lang])

-----------------------------------------------------------------------------
(* LangInfo.conforms_to and LangInfo.conformant_attr.  Each nested call    *)
(* takes an interpreter frame; past the recursion limit the interpreter    *)
(* raises RuntimeError, which `except LangInfoError` does not catch, so it *)
(* leaves every enclosing call.                                            *)

RECURSIVE conforms_to(_, _, _, _)
RECURSIVE conforms_to_bases_loop(_, _, _, _, _)

\* The `for base in self.conforms_to_bases` loop of conforms_to, from entry i on.
conforms_to_bases_loop(db, li, lang, i, depth) ==
    IF i > Len(li.conforms_to_bases)
    THEN Return(FALSE)
    ELSE LET base_li == langinfo_from_lang(db, li.conforms_to_bases[i])
         IN  IF base_li.raised # None
             THEN conforms_to_bases_loop(db, li, lang, i + 1, depth)
             ELSE LET r == conforms_to(db, base_li.val, lang, depth + 1)
                  IN  IF r.raised # None THEN r
                      ELSE IF r.val THEN Return(TRUE)
                      ELSE conforms_to_bases_loop(db, li, lang, i + 1, depth)

\* conforms_to without its first test, `if lang == self.name`.
conforms_to_without_own_name(db, li, lang, depth) ==
    IF depth > RecursionLimit
    THEN Raise("RuntimeError")
    ELSE IF li.conforms_to_bases # <<>>
    THEN IF InSeq(lang, li.conforms_to_bases)
         THEN Return(TRUE)
         ELSE conforms_to_bases_loop(db, li, lang, 1, depth)
    ELSE Return(FALSE)

conforms_to(db, li, lang, depth) ==
    IF depth > RecursionLimit
    THEN Raise("RuntimeError")
    ELSE IF lang = li.name
    THEN Return(TRUE)
    ELSE IF li.conforms_to_bases # <<>>
    THEN IF InSeq(lang, li.conforms_to_bases)
         THEN Return(TRUE)
         ELSE conforms_to_bases_loop(db, li, lang, 1, depth)
    ELSE Return(FALSE)

RECURSIVE conformant_attr(_, _, _, _)
RECURSIVE conformant_attr_bases_loop(_, _, _, _, _)

\* The `for base in self.conforms_to_bases or []` loop of conformant_attr.
conformant_attr_bases_loop(db, li, attr, i, depth) ==
    IF i > Len(li.conforms_to_bases)
    THEN Return(None)
    ELSE LET base_li == langinfo_from_lang(db, li.conforms_to_bases[i])
         IN  IF base_li.raised # None
             THEN conformant_attr_bases_loop(db, li, attr, i + 1, depth)
             ELSE LET r == conformant_attr(db, base_li.val, attr, depth + 1)
                  IN  IF r.raised # None THEN r
                      ELSE IF r.val # None THEN r
                      ELSE conformant_attr_bases_loop(db, li, attr, i + 1, depth)

conformant_attr(db, li, attr, depth) ==
    IF depth > RecursionLimit
    THEN Raise("RuntimeError")
    ELSE IF attr \in DOMAIN li /\ li[attr] # None
    THEN Return(li[attr])
    ELSE conformant_attr_bases_loop(db, li, attr, 1, depth)

-----------------------------------------------------------------------------
(* Patterns and magic numbers.                                             *)
(*                                                                         *)
(* A filename pattern is a string or a compiled regex.  The compiled       *)
(* regexes of the model are the literal ones: re.compile(re.escape(lit)),  *)
(* or that anchored with a leading `^`.                                    *)
(* A magic number is a tuple (start, format, pattern); format is "string", *)
(* "regex" or a struct format.                                             *)

\* regex.search(string), without the pos it was given.
search_from_the_beginning(regex, string, pos) ==
    \E i \in 0..(Len(string) - Len(regex.lit)) :
        /\ regex.anchored => i = 0
        /\ Slice(string, i, i + Len(regex.lit)) = regex.lit

\* regex.search(string, pos): a match object or None, here TRUE or FALSE.
\* pos is clamped to len(string); `^` matches at the real beginning of the
\* string only, wherever the search starts.
search(regex, string, pos) ==
    LET from == IF pos > Len(string) THEN Len(string) ELSE pos
    IN  \E i \in from..(Len(string) - Len(regex.lit)) :
            /\ regex.anchored => i = 0
            /\ Slice(string, i, i + Len(regex.lit)) = regex.lit

\* struct.calcsize(format): the size of the formats the model uses, and
\* struct.error for what is no struct format.
calcsize(format) ==
    CASE format = "B" -> Return(1)
      [] format = "<H" -> Return(2)
      [] format = ">H" -> Return(2)
      [] OTHER -> Raise("struct.error")

\* struct.unpack(format, bytes)[0]: struct.error for what is no struct
\* format and for bytes that are not of the size calcsize(format).
unpack(format, bytes) ==
    CASE format = "B" /\ Len(bytes) = 1 -> Return(bytes[1])
      [] format = "<H" /\ Len(bytes) = 2 -> Return(bytes[1] + 256 * bytes[2])
      [] format = ">H" /\ Len(bytes) = 2 -> Return(256 * bytes[1] + bytes[2])
      [] OTHER -> Raise("struct.error")

-----------------------------------------------------------------------------
(* Database._build_tables: one pass over self._langinfo_from_norm_lang     *)
(* .values(), in the order the dict iterates.                              *)

RECURSIVE Entries(_, _, _, _)

\* The (entry, li) pairs the pass meets for one list attribute, in order,
\* from the i-th LangInfo of the iteration on.
Entries(db, order, field, i) ==
    IF i > Len(order)
    THEN <<>>
    ELSE LET li == db[order[i]]
         IN  [j \in DOMAIN li[field] |-> <<li[field][j], li>>]
                 \o Entries(db, order, field, i + 1)

\* d = {}; then d[key] = li for each pair in order: the last assignment stays.
DictOf(pairs) ==
    [key \in {pairs[i][1] : i \in DOMAIN pairs} |->
        LET last == CHOOSE i \in DOMAIN pairs :
                /\ pairs[i][1] = key
                /\ \A j \in DOMAIN pairs : pairs[j][1] = key => j <= i
        IN  pairs[last][2]]

CaseInsensitive(p) == p \in {"win32", "darwin"}

\* The extension table without the lower-casing of its keys.
BuildExt_as_written(db, order, p) ==
    DictOf(Entries(db, order, "exts", 1))

\* self._langinfo_from_ext[ext] = li, ext lower-cased on win32 and darwin.
BuildExt(db, order, p) ==
    LET met == Entries(db, order, "exts", 1)
    IN  DictOf([i \in DOMAIN met |->
                  <<IF CaseInsensitive(p) THEN Lower(met[i][1]) ELSE met[i][1], met[i][2]>>])

\* self._langinfo_from_filename[pat] = li for the string patterns.
BuildFilename(db, order) ==
    LET met == SelectSeq(Entries(db, order, "filename_patterns", 1),
                         LAMBDA e : e[1].kind = "str")
    IN  DictOf([i \in DOMAIN met |-> <<met[i][1].s, met[i][2]>>])

\* self._langinfo_from_filename_re[pat] = li for the others.
BuildFilenameRe(db, order) ==
    DictOf(SelectSeq(Entries(db, order, "filename_patterns", 1),
                     LAMBDA e : e[1].kind # "str"))

\* self._magic_table.append((mn, li))
BuildMagic(db, order) == Entries(db, order, "magic_numbers", 1)

\* The doctype tuples met before the first one that does not unpack: a pass
\* that stops at it.
ValidDoctypes_up_to_the_first_invalid(db, order) ==
    LET e == Entries(db, order, "doctypes", 1)
        bad == {i \in DOMAIN e : Len(e[i][1]) # 4}
    IN  IF bad = {}
        THEN e
        ELSE SubSeq(e, 1, (CHOOSE i \in bad : \A j \in bad : i <= j) - 1)

\* The doctype tuples that unpack into (flavour, name, public_id, system_id).
ValidDoctypes(db, order) ==
    SelectSeq(Entries(db, order, "doctypes", 1), LAMBDA e : Len(e[1]) = 4)

\* self._li_from_doctype_public_id[public_id] = li, `if public_id`.
BuildPublicId(db, order) ==
    LET met == SelectSeq(ValidDoctypes(db, order), LAMBDA e : e[1][3] # <<>>)
    IN  DictOf([i \in DOMAIN met |-> <<met[i][1][3], met[i][2]>>])

\* self._li_from_doctype_system_id[system_id] = li, `if system_id`.
BuildSystemId(db, order) ==
    LET met == SelectSeq(ValidDoctypes(db, order), LAMBDA e : e[1][4] # <<>>)
    IN  DictOf([i \in DOMAIN met |-> <<met[i][1][4], met[i][2]>>])

\* self._li_from_emacs_mode[em] = li
BuildEmacsMode(db, order) == DictOf(Entries(db, order, "emacs_modes", 1))

\* The seven tables after _build_tables, each wrapped as a value that is
\* not None, in the order of the tuple `tables`.
_build_tables(db, order, p) ==
    << Some(BuildExt(db, order, p)), Some(BuildFilename(db, order)),
       Some(BuildFilenameRe(db, order)), Some(BuildMagic(db, order)),
       Some(BuildPublicId(db, order)), Some(BuildSystemId(db, order)),
       Some(BuildEmacsMode(db, order)) >>

\* `if self.<table> is None: self._build_tables()`, as the next value of
\* the seven tables.
BuiltIfNone(table) ==
    IF table = None
    THEN _build_tables(_langinfo_from_norm_lang, values_order, platform)
    ELSE tables

\* d.get(key)
Get(d, key) == IF key \in DOMAIN d THEN Some(d[key]) ELSE None

-----------------------------------------------------------------------------
(* The lookups.  Each takes the tables as they are after its own           *)
(* `if ... is None: self._build_tables()`.                                 *)

\* langinfo_from_ext without `ext = ext.lower()`.
langinfo_from_ext_as_given(t, p, ext) ==
    Return(Get(t[1][1], ext))

langinfo_from_ext(t, p, ext) ==
    Return(Get(t[1][1], IF CaseInsensitive(p) THEN Lower(ext) ELSE ext))

\* langinfo_from_doctype with its two tests in the other order.
langinfo_from_doctype_system_id_first(t, public_id, system_id) ==
    IF system_id # None /\ system_id \in DOMAIN t[6][1]
    THEN Return(Some(t[6][1][system_id]))
    ELSE IF public_id # None /\ public_id \in DOMAIN t[5][1]
    THEN Return(Some(t[5][1][public_id]))
    ELSE Return(None)

langinfo_from_doctype(t, public_id, system_id) ==
    IF public_id # None /\ public_id \in DOMAIN t[5][1]
    THEN Return(Some(t[5][1][public_id]))
    ELSE IF system_id # None /\ system_id \in DOMAIN t[6][1]
    THEN Return(Some(t[6][1][system_id]))
    ELSE Return(None)

\* for regex, li in self._langinfo_from_filename_re.items(): the first
\* pattern, in the order the dict yields its items, that is found in
\* filename; None when the loop ends.
RECURSIVE langinfo_from_filename_re_loop(_, _, _, _)
langinfo_from_filename_re_loop(table, items, filename, i) ==
    IF i > Len(items)
    THEN Return(None)
    ELSE IF search(items[i], filename, 0)
    THEN Return(Some(table[items[i]]))
    ELSE langinfo_from_filename_re_loop(table, items, filename, i + 1)

\* items is the order in which the dict of compiled patterns yields its
\* keys: compiled patterns hash by identity, so it is any order.
langinfo_from_filename(t, items, filename) ==
    IF filename \in DOMAIN t[2][1]
    THEN Return(Some(t[2][1][filename]))
    ELSE langinfo_from_filename_re_loop(t[3][1], items, filename, 1)

\* langinfo_from_emacs_mode with the language name tried before the alias.
langinfo_from_emacs_mode_name_first(t, db, emacs_mode) ==
    IF _norm_lang_from_lang(emacs_mode) \in DOMAIN db
    THEN Return(Some(db[_norm_lang_from_lang(emacs_mode)]))
    ELSE IF emacs_mode \in DOMAIN t[7][1]
    THEN Return(Some(t[7][1][emacs_mode]))
    ELSE Return(None)

\* Falling off the end of the method returns None.
langinfo_from_emacs_mode(t, db, emacs_mode) ==
    IF emacs_mode \in DOMAIN t[7][1]
    THEN Return(Some(t[7][1][emacs_mode]))
    ELSE LET norm_lang == _norm_lang_from_lang(emacs_mode)
         IN  IF norm_lang \in DOMAIN db
             THEN Return(Some(db[norm_lang]))
             ELSE Return(None)

\* The outcome of langinfo_from_magic, with the index of the _magic_table
\* entry that ended the loop (0 when the loop ran out).
MagicOutcome(out, i) == [raised |-> out.raised, val |-> out.val, at |-> i]

RECURSIVE magic_loop(_, _, _, _, _)

\* The loop of langinfo_from_magic from entry i on.  `length` is the local
\* variable of that name: None while unbound, and kept from one iteration
\* to the next.
magic_loop(table, head_bytes, shebang_only, i, length) ==
    IF i > Len(table)
    THEN MagicOutcome(Return(None), 0)
    ELSE LET magic_number == table[i][1]
             li == table[i][2]
         IN  IF Len(magic_number) # 3
             THEN magic_loop(table, head_bytes, shebang_only, i + 1, length)
             ELSE LET start == magic_number[1]
                      format == magic_number[2]
                      pattern == magic_number[3]
                  IN  IF shebang_only /\ format # "regex"
                      THEN magic_loop(table, head_bytes, shebang_only, i + 1, length)
                      ELSE IF format = "string"
                      THEN IF Slice(head_bytes, start, start + Len(pattern)) = pattern
                           THEN MagicOutcome(Return(Some(li)), i)
                           ELSE magic_loop(table, head_bytes, shebang_only, i + 1, length)
                      ELSE IF format = "regex"
                      THEN IF search(pattern, head_bytes, start)
                           THEN MagicOutcome(Return(Some(li)), i)
                           ELSE magic_loop(table, head_bytes, shebang_only, i + 1, length)
                      ELSE LET size == calcsize(format)
                               length2 == IF size.raised = None THEN Some(size.val) ELSE length
                           IN  IF length2 = None
                               THEN MagicOutcome(Raise("UnboundLocalError"), i)
                               ELSE LET bytes == Slice(head_bytes, start, start + length2[1])
                                    IN  IF Len(bytes) = length2[1]
                                        THEN LET u == unpack(format, bytes)
                                             IN  IF u.raised # None
                                                 THEN MagicOutcome(u, i)
                                                 ELSE IF u.val = pattern
                                                 THEN MagicOutcome(Return(Some(li)), i)
                                                 ELSE magic_loop(table, head_bytes,
                                                                 shebang_only, i + 1, length2)
                                        ELSE magic_loop(table, head_bytes, shebang_only,
                                                        i + 1, length2)

\* langinfo_from_magic that probes every magic number whatever shebang_only says.
langinfo_from_magic_probing_all(t, head_bytes, shebang_only) ==
    magic_loop(t[4][1], head_bytes, FALSE, 1, None)

langinfo_from_magic(t, head_bytes, shebang_only) ==
    magic_loop(t[4][1], head_bytes, shebang_only, 1, None)

-----------------------------------------------------------------------------
(* A thread that is not inside a call is Idle.                             *)
(* The state after Database.__init__ has run self._load(), called as       *)
(* Database() without a list of directories: the one LangInfo subclass of  *)
(* the module, TextLangInfo, is registered and the tables are None.        *)

Idle == [at |-> "idle"]

InitOn(p) ==
    /\ platform = p
    /\ pc = "init"
    /\ _langinfo_from_norm_lang = (_norm_lang_from_lang(TextLangInfo.name) :> TextLangInfo)
    /\ values_order = <<_norm_lang_from_lang(TextLangInfo.name)>>
    /\ load_order = <<_norm_lang_from_lang(TextLangInfo.name)>>
    /\ _langinfo_from_ext = None
    /\ _langinfo_from_filename = None
    /\ _langinfo_from_filename_re = None
    /\ _magic_table = None
    /\ _li_from_doctype_public_id = None
    /\ _li_from_doctype_system_id = None
    /\ _li_from_emacs_mode = None
    /\ threads = [t \in Threads |-> Idle]
    /\ dirs = None
    /\ result = [op |-> "_load"]

Platforms == {"linux2", "win32", "darwin"}


Init == \E p \in Platforms : InitOn(p)

\* _load_dir registers one LangInfo subclass found in a langinfo_*.py module:
\*     norm_lang = self._norm_lang_from_lang(attr.name)
\*     self._langinfo_from_norm_lang[norm_lang] = attr(self)
\* A new key lands wherever its hash puts it and may resize the dict, so the
\* iteration order afterwards is any order of the keys; replacing a value
\* keeps the order.  For a class whose name is None, None.lower() raises
\* AttributeError; nothing in _load_dir or __init__ catches it.
\* `after` is where the caller stands when the call raised.
\* Registration that keeps the class already held under the name.
_load_dir_class_keeping_the_first(cls, after) ==
    IF cls.name = None
    THEN /\ pc' = after
         /\ result' = [op |-> "_load_dir", cls |-> cls, out |-> Raise("AttributeError")]
         /\ UNCHANGED <<_langinfo_from_norm_lang, values_order, load_order>>
    ELSE LET norm_lang == _norm_lang_from_lang(cls.name)
         IN  /\ _langinfo_from_norm_lang' =
                    [k \in DOMAIN _langinfo_from_norm_lang \cup {norm_lang} |->
                        IF k \in DOMAIN _langinfo_from_norm_lang
                        THEN _langinfo_from_norm_lang[k]
                        ELSE cls]
             /\ IF norm_lang \in DOMAIN _langinfo_from_norm_lang
                THEN values_order' = values_order
                ELSE values_order' \in Perms(DOMAIN _langinfo_from_norm_lang \cup {norm_lang})
             /\ load_order' = Append(Without(load_order, norm_lang), norm_lang)
             /\ result' = [op |-> "_load_dir", cls |-> cls, out |-> Return(None)]
             /\ pc' = pc

_load_dir_class(cls, after) ==
    IF cls.name = None
    THEN /\ pc' = after
         /\ result' = [op |-> "_load_dir", cls |-> cls, out |-> Raise("AttributeError")]
         /\ UNCHANGED <<_langinfo_from_norm_lang, values_order, load_order>>
    ELSE LET norm_lang == _norm_lang_from_lang(cls.name)
         IN  /\ _langinfo_from_norm_lang' =
                   [k \in DOMAIN _langinfo_from_norm_lang \cup {norm_lang} |->
                       IF k = norm_lang THEN cls ELSE _langinfo_from_norm_lang[k]]
             /\ IF norm_lang \in DOMAIN _langinfo_from_norm_lang
                THEN values_order' = values_order
                ELSE values_order' \in Perms(DOMAIN _langinfo_from_norm_lang \cup {norm_lang})
             /\ load_order' = Append(Without(load_order, norm_lang), norm_lang)
             /\ result' = [op |-> "_load_dir", cls |-> cls, out |-> Return(None)]
             /\ pc' = pc

\* Database.__init__ is in `for dir in dirs: self._load_dir(dir)` and
\* registers the next class; when that raises, so does Database(), and
\* there is no Database.
Register(cls) ==
    /\ pc = "init"
    /\ _load_dir_class(cls, "raised")
    /\ UNCHANGED <<threads, platform, dirs, tables>>

\* _load_dir meets a langinfo_*.py module whose import raises: it logs a
\* warning and goes on to the next module.
SkipModule ==
    /\ pc = "init"
    /\ result' = [op |-> "_load_dir", out |-> Return(None)]
    /\ UNCHANGED <<threads, platform, dirs, pc, _langinfo_from_norm_lang, values_order,
                   load_order, tables>>

\* db._load_dir(dir) called on the Database after it was constructed.
LoadDirLater(cls) ==
    /\ pc = "ready"
    /\ _load_dir_class(cls, "ready")
    /\ UNCHANGED <<threads, platform, dirs, tables>>

\* Database.__init__ returns.
Constructed ==
    /\ pc = "init"
    /\ pc' = "ready"
    /\ result' = [op |-> "__init__"]
    /\ UNCHANGED <<threads, platform, dirs, _langinfo_from_norm_lang, values_order, load_order, tables>>

\* li.conforms_to(lang), li a LangInfo of the database.
ConformsTo(norm, lang) ==
    /\ pc = "ready"
    /\ norm \in DOMAIN _langinfo_from_norm_lang
    /\ result' = [op |-> "conforms_to", li |-> _langinfo_from_norm_lang[norm], lang |-> lang,
                  out |-> conforms_to(_langinfo_from_norm_lang,
                                      _langinfo_from_norm_lang[norm], lang, 1)]
    /\ UNCHANGED <<threads, platform, dirs, pc, _langinfo_from_norm_lang, values_order, load_order, tables>>

\* li.conformant_attr(attr)
ConformantAttr(norm, attr) ==
    /\ pc = "ready"
    /\ norm \in DOMAIN _langinfo_from_norm_lang
    /\ result' = [op |-> "conformant_attr", li |-> _langinfo_from_norm_lang[norm],
                  attr |-> attr,
                  out |-> conformant_attr(_langinfo_from_norm_lang,
                                          _langinfo_from_norm_lang[norm], attr, 1)]
    /\ UNCHANGED <<threads, platform, dirs, pc, _langinfo_from_norm_lang, values_order, load_order, tables>>

\* A build that leaves the Emacs mode table as it is.
SetTables_but_emacs_modes(t) ==
    /\ _langinfo_from_ext' = t[1]
    /\ _langinfo_from_filename' = t[2]
    /\ _langinfo_from_filename_re' = t[3]
    /\ _magic_table' = t[4]
    /\ _li_from_doctype_public_id' = t[5]
    /\ _li_from_doctype_system_id' = t[6]
    /\ _li_from_emacs_mode' = _li_from_emacs_mode

\* The seven tables take the values t.
SetTables(t) ==
    /\ _langinfo_from_ext' = t[1]
    /\ _langinfo_from_filename' = t[2]
    /\ _langinfo_from_filename_re' = t[3]
    /\ _magic_table' = t[4]
    /\ _li_from_doctype_public_id' = t[5]
    /\ _li_from_doctype_system_id' = t[6]
    /\ _li_from_emacs_mode' = t[7]

\* The directory of the module itself: dirname(__file__) or os.curdir.
module_dir == "dirname(__file__)"

\* Database(dirs) up to the loop over dirs, called with the list the caller
\* holds: the attributes are set, self._load() registers TextLangInfo, and
\* the directory of the module is inserted at the head of dirs, which is
\* the caller's list itself unless the caller passed None.
__init__ ==
    /\ pc \in {"new", "ready"}
    /\ dirs # None => Len(dirs[1]) < MaxDirs
    /\ pc' = "init"
    /\ _langinfo_from_norm_lang' = (_norm_lang_from_lang(TextLangInfo.name) :> TextLangInfo)
    /\ values_order' = <<_norm_lang_from_lang(TextLangInfo.name)>>
    /\ load_order' = <<_norm_lang_from_lang(TextLangInfo.name)>>
    /\ SetTables(<<None, None, None, None, None, None, None>>)
    /\ dirs' = IF dirs = None THEN None ELSE Some(<<module_dir>> \o dirs[1])
    /\ result' = [op |-> "Database", dirs |-> dirs,
                  scanned |-> <<module_dir>> \o (IF dirs = None THEN <<>> ELSE dirs[1])]
    /\ UNCHANGED <<threads, platform>>

\* d[key] = li for every key of new, on top of what d holds.
Merge(d, new) ==
    [key \in DOMAIN d \cup DOMAIN new |-> IF key \in DOMAIN new THEN new[key] ELSE d[key]]

\* A thread calls db.langinfo_from_ext(ext).
T_Call(t, ext) ==
    /\ pc = "ready"
    /\ threads[t] = Idle
    /\ threads' = [threads EXCEPT ![t] = [at |-> "check", ext |-> ext, built |-> FALSE]]
    /\ UNCHANGED <<platform, dirs, pc, _langinfo_from_norm_lang, values_order, load_order, tables,
                   result>>

\* if self._langinfo_from_ext is None: (no lock is held)
T_Check(t) ==
    /\ threads[t].at = "check"
    /\ threads' = [threads EXCEPT ![t] =
                      IF _langinfo_from_ext = None
                      THEN [at |-> "reset", ext |-> threads[t].ext, built |-> TRUE]
                      ELSE [at |-> "lookup", ext |-> threads[t].ext, built |-> FALSE]]
    /\ UNCHANGED <<platform, dirs, pc, _langinfo_from_norm_lang, values_order, load_order, tables,
                   result>>

\* _build_tables, its first statements: every table becomes empty.
T_Reset(t) ==
    /\ threads[t].at = "reset"
    /\ SetTables(<<Some(<<>>), Some(<<>>), Some(<<>>), Some(<<>>), Some(<<>>), Some(<<>>),
                   Some(<<>>)>>)
    /\ threads' = [threads EXCEPT ![t] =
                      [at |-> "fill", ext |-> threads[t].ext, built |-> TRUE, i |-> 1]]
    /\ UNCHANGED <<platform, dirs, pc, _langinfo_from_norm_lang, values_order, load_order, result>>

\* _build_tables, one round of `for li in self._langinfo_from_norm_lang.values()`:
\* the entries of li go into the tables as they are now.
T_Fill(t) ==
    /\ threads[t].at = "fill"
    /\ IF threads[t].i > Len(values_order)
       THEN /\ threads' = [threads EXCEPT ![t] =
                              [at |-> "lookup", ext |-> threads[t].ext, built |-> TRUE]]
            /\ UNCHANGED tables
       ELSE LET db == _langinfo_from_norm_lang
                li == <<values_order[threads[t].i]>>
            IN  /\ SetTables(
                       << Some(Merge(_langinfo_from_ext[1], BuildExt(db, li, platform))),
                          Some(Merge(_langinfo_from_filename[1], BuildFilename(db, li))),
                          Some(Merge(_langinfo_from_filename_re[1], BuildFilenameRe(db, li))),
                          Some(_magic_table[1] \o BuildMagic(db, li)),
                          Some(Merge(_li_from_doctype_public_id[1], BuildPublicId(db, li))),
                          Some(Merge(_li_from_doctype_system_id[1], BuildSystemId(db, li))),
                          Some(Merge(_li_from_emacs_mode[1], BuildEmacsMode(db, li))) >>)
                /\ threads' = [threads EXCEPT ![t] =
                                  [at |-> "fill", ext |-> threads[t].ext, built |-> TRUE,
                                   i |-> threads[t].i + 1]]
    /\ UNCHANGED <<platform, dirs, pc, _langinfo_from_norm_lang, values_order, load_order, result>>

\* return self._langinfo_from_ext.get(ext)
T_Lookup(t) ==
    /\ threads[t].at = "lookup"
    /\ threads' = [threads EXCEPT ![t] =
                      [at |-> "done", ext |-> threads[t].ext, built |-> threads[t].built,
                       out |-> langinfo_from_ext(tables, platform, threads[t].ext)]]
    /\ UNCHANGED <<platform, dirs, pc, _langinfo_from_norm_lang, values_order, load_order, tables,
                   result>>

\* A langinfo_from_lang that registers a LangInfo for a name it does not find.
FromLang_registering_the_miss(lang) ==
    /\ pc = "ready"
    /\ result' = [op |-> "langinfo_from_lang", lang |-> lang,
                  out |-> langinfo_from_lang(_langinfo_from_norm_lang, lang)]
    /\ LET norm_lang == _norm_lang_from_lang(lang)
       IN  IF norm_lang \in DOMAIN _langinfo_from_norm_lang
           THEN UNCHANGED <<_langinfo_from_norm_lang, values_order, load_order>>
           ELSE /\ _langinfo_from_norm_lang' =
                       [key \in DOMAIN _langinfo_from_norm_lang \cup {norm_lang} |->
                           IF key = norm_lang THEN Named(lang)
                           ELSE _langinfo_from_norm_lang[key]]
                /\ values_order' = Append(values_order, norm_lang)
                /\ load_order' = Append(load_order, norm_lang)
    /\ UNCHANGED <<threads, platform, dirs, pc, tables>>

\* db.langinfo_from_lang(lang)
FromLang(lang) ==
    /\ pc = "ready"
    /\ result' = [op |-> "langinfo_from_lang", lang |-> lang,
                  out |-> langinfo_from_lang(_langinfo_from_norm_lang, lang)]
    /\ UNCHANGED <<threads, platform, dirs, pc, _langinfo_from_norm_lang, values_order, load_order,
                   tables>>

\* db.langinfo_from_emacs_mode(emacs_mode)
FromEmacsMode(emacs_mode) ==
    /\ pc = "ready"
    /\ LET t == BuiltIfNone(_li_from_emacs_mode)
       IN  /\ SetTables(t)
           /\ result' = [op |-> "langinfo_from_emacs_mode", emacs_mode |-> emacs_mode,
                         out |-> langinfo_from_emacs_mode(t, _langinfo_from_norm_lang,
                                                          emacs_mode)]
    /\ UNCHANGED <<threads, platform, dirs, pc, _langinfo_from_norm_lang, values_order, load_order>>

\* db.langinfo_from_filename(filename)
FromFilename(filename) ==
    /\ pc = "ready"
    /\ LET t == BuiltIfNone(_langinfo_from_filename)
       IN  /\ SetTables(t)
           /\ \E items \in Perms(DOMAIN t[3][1]) :
                  result' = [op |-> "langinfo_from_filename", filename |-> filename,
                             out |-> langinfo_from_filename(t, items, filename)]
    /\ UNCHANGED <<threads, platform, dirs, pc, _langinfo_from_norm_lang, values_order, load_order>>

\* db.langinfo_from_ext(ext)
FromExt(ext) ==
    /\ pc = "ready"
    /\ LET t == BuiltIfNone(_langinfo_from_ext)
       IN  /\ SetTables(t)
           /\ result' = [op |-> "langinfo_from_ext", ext |-> ext,
                         out |-> langinfo_from_ext(t, platform, ext)]
    /\ UNCHANGED <<threads, platform, dirs, pc, _langinfo_from_norm_lang, values_order, load_order>>

\* db.langinfo_from_doctype(public_id, system_id)
FromDoctype(public_id, system_id) ==
    /\ pc = "ready"
    /\ LET t == BuiltIfNone(_li_from_doctype_public_id)
       IN  /\ SetTables(t)
           /\ result' = [op |-> "langinfo_from_doctype", public_id |-> public_id,
                         system_id |-> system_id,
                         out |-> langinfo_from_doctype(t, public_id, system_id)]
    /\ UNCHANGED <<threads, platform, dirs, pc, _langinfo_from_norm_lang, values_order, load_order>>

\* db.langinfo_from_magic(head_bytes, shebang_only)
FromMagic(head_bytes, shebang_only) ==
    /\ pc = "ready"
    /\ LET t == BuiltIfNone(_magic_table)
       IN  /\ SetTables(t)
           /\ result' = [op |-> "langinfo_from_magic", head_bytes |-> head_bytes,
                         shebang_only |-> shebang_only,
                         out |-> langinfo_from_magic(t, head_bytes, shebang_only)]
    /\ UNCHANGED <<threads, platform, dirs, pc, _langinfo_from_norm_lang, values_order, load_order>>

-----------------------------------------------------------------------------
(* The conformance graph: the LangInfo classes the langinfo_*.py modules   *)
(* of this specification define, and the names and attributes asked about. *)

ConfClasses ==
    { [Named(NameA) EXCEPT !.conforms_to_bases = <<NameB>>],
      [Named(NameA) EXCEPT !.conforms_to_bases = <<NameA>>],
      [Named(NameA) EXCEPT !.conforms_to_bases = <<Ghost, NameB>>],
      [Named(NameA) EXCEPT !.conforms_to_bases = <<NameB, Text>>],
      [Named(NameA) EXCEPT !.conforms_to_bases = <<NameA, NameB>>],
      [Named(NameB) EXCEPT !.conforms_to_bases = <<Text>>],
      [Named(NameB) EXCEPT !.conforms_to_bases = <<NameA>>],
      [Named(NameB) EXCEPT !.default_encoding = Some(ascii)],
      Named(NameB),
      [Named(Text) EXCEPT !.default_encoding = Some(utf8)] }

ConfLangs == {Text, text, NameA, NameB, Ghost}

ConfAttrs == {"default_encoding", "encoding_decl_pattern"}

NextConf ==
    \/ \E cls \in ConfClasses : Register(cls)
    \/ Constructed
    \/ \E norm \in DOMAIN _langinfo_from_norm_lang, lang \in ConfLangs : ConformsTo(norm, lang)
    \/ \E norm \in DOMAIN _langinfo_from_norm_lang, attr \in ConfAttrs :
           ConformantAttr(norm, attr)

SpecConf == InitOn("linux2") /\ [][NextConf]_vars

-----------------------------------------------------------------------------
(* What the conformance claims speak of: the graph that conforms_to_bases  *)
(* spans over the registered LangInfos, walked with a guard against        *)
(* revisits.                                                               *)

\* The registered LangInfos the bases of the LangInfo under key k resolve to.
BaseKeys(db, k) ==
    {_norm_lang_from_lang(db[k].conforms_to_bases[i]) : i \in DOMAIN db[k].conforms_to_bases}
        \cap DOMAIN db

RECURSIVE ReachKeys(_, _)
ReachKeys(db, S) ==
    LET T == S \cup UNION {BaseKeys(db, k) : k \in S}
    IN  IF T = S THEN S ELSE ReachKeys(db, T)

\* The keys of the LangInfos reachable from li, li itself included.
Reachable(db, li) == ReachKeys(db, {_norm_lang_from_lang(li.name)})

\* The names a LangInfo reachable from li bears or declares as a base.
ReachableNames(db, li) ==
    UNION {{db[k].name} \cup {db[k].conforms_to_bases[i] : i \in DOMAIN db[k].conforms_to_bases} :
              k \in Reachable(db, li)}

\* Some base chain from li leads back to a LangInfo already on it.
OnCycle(db, li) ==
    \E k \in Reachable(db, li) : \E b \in BaseKeys(db, k) : k \in ReachKeys(db, {b})

RECURSIVE GuardedAttr(_, _, _, _)
RECURSIVE GuardedAttrBases(_, _, _, _, _)

\* The first non-null value of attr in a depth-first walk of the bases of
\* the LangInfo under key k, in declaration order, a base already on the
\* path counting as supplying nothing.
GuardedAttrBases(db, k, attr, i, path) ==
    IF i > Len(db[k].conforms_to_bases)
    THEN None
    ELSE LET b == _norm_lang_from_lang(db[k].conforms_to_bases[i])
             v == IF b \in DOMAIN db /\ b \notin path
                  THEN GuardedAttr(db, b, attr, path \cup {b})
                  ELSE None
         IN  IF v # None THEN v ELSE GuardedAttrBases(db, k, attr, i + 1, path)

GuardedAttr(db, k, attr, path) ==
    IF db[k][attr] # None
    THEN db[k][attr]
    ELSE GuardedAttrBases(db, k, attr, 1, path)

ExpectedAttr(db, li, attr) ==
    LET k == _norm_lang_from_lang(li.name) IN GuardedAttr(db, k, attr, {k})

IsConformsTo == result.op = "conforms_to"

IsConformantAttr == result.op = "conformant_attr"

\* C1: conforms_to(d, t) terminates on every catalog, cyclic ones included:
\* it raises nothing, and it returns False when t is no name borne or
\* declared by a LangInfo reachable from d.
C1_ConformsToTerminates ==
    IsConformsTo =>
        /\ result.out.raised = None
        /\ result.lang \notin ReachableNames(_langinfo_from_norm_lang, result.li)
               => result.out.val = FALSE

\* C2: conformant_attr(d, attr) terminates on every catalog, cyclic ones
\* included: it raises nothing, and it returns None when no LangInfo
\* reachable from d sets attr.
C2_ConformantAttrTerminates ==
    IsConformantAttr =>
        /\ result.out.raised = None
        /\ (\A k \in Reachable(_langinfo_from_norm_lang, result.li) :
               _langinfo_from_norm_lang[k][result.attr] = None)
               => result.out.val = None

\* C3: conforms_to is transitive: conforms_to(A, T) returns True whenever T
\* is borne or declared by a LangInfo reachable from A through bases that
\* resolve.
C3_Transitive ==
    (IsConformsTo /\ result.lang \in ReachableNames(_langinfo_from_norm_lang, result.li))
        => result.out = Return(TRUE)

\* C4: conforms_to is reflexive: conforms_to(d, d.name) returns True
\* whatever d.conforms_to_bases holds.
C4_Reflexive ==
    (IsConformsTo /\ result.lang = result.li.name) => result.out = Return(TRUE)

\* C4 case: a LangInfo without bases, and one on a cycle, were asked about
\* their own names.
C4_Witness ==
    /\ IsConformsTo
    /\ result.lang = result.li.name
    /\ result.li.conforms_to_bases = <<Ghost, NameB>>
    /\ OnCycle(_langinfo_from_norm_lang, result.li)

\* Base number i of li names no registered LangInfo.
Dangling(db, li, i) == _norm_lang_from_lang(li.conforms_to_bases[i]) \notin DOMAIN db

\* C21: a dangling base is no error: conforms_to(d, t), d having a base
\* that names no registered LangInfo, raises nothing and returns True when
\* another base of d resolves to a LangInfo that conforms to t.
C21_DanglingBasesTolerated ==
    LET db == _langinfo_from_norm_lang
        li == result.li
    IN  (IsConformsTo /\ \E i \in DOMAIN li.conforms_to_bases : Dangling(db, li, i)) =>
            /\ result.out.raised = None
            /\ (\E j \in DOMAIN li.conforms_to_bases :
                    /\ ~Dangling(db, li, j)
                    /\ result.lang \in
                           ReachableNames(db, db[_norm_lang_from_lang(li.conforms_to_bases[j])]))
                   => result.out.val = TRUE

\* C25: conforms_to(d, t) returns True whenever t is the lower-cased name
\* of d, the key d is registered under.
C25_SelfNameNormalized ==
    (IsConformsTo /\ _norm_lang_from_lang(result.li.name) = result.lang)
        => result.out = Return(TRUE)

\* C5: conformant_attr(d, attr) returns d's own value when it is set,
\* otherwise the first value a depth-first walk of the bases in declaration
\* order meets, otherwise None.
C5_FirstInDeclarationOrder ==
    IsConformantAttr =>
        result.out = Return(ExpectedAttr(_langinfo_from_norm_lang, result.li, result.attr))

-----------------------------------------------------------------------------
(* Extensions: the classes of the register-then-lookup scenario.           *)

dot_w == <<46, 119>>
dot_W == <<46, 87>>
dot_b == <<46, 98>>

ExtClasses ==
    { [Named(NameA) EXCEPT !.exts = <<dot_W>>, !.conforms_to_bases = <<Text>>],
      [Named(NameA) EXCEPT !.exts = <<dot_w, dot_b>>, !.conforms_to_bases = <<Text>>],
      [Named(NameA) EXCEPT !.exts = <<dot_w>>, !.conforms_to_bases = <<Text>>,
                           !.default_encoding = Some(ascii)],
      [Named(NameB) EXCEPT !.exts = <<dot_w>>],
      [Named(NameB) EXCEPT !.exts = <<dot_b>>, !.conforms_to_bases = <<Text>>],
      [Named(Text) EXCEPT !.default_encoding = Some(utf8)],
      [Named(Text) EXCEPT !.conforms_to_bases = <<NameB>>] }

ExtQueries == {dot_w, dot_W, dot_b}

NextExt ==
    \/ \E cls \in ExtClasses : Register(cls)
    \/ Constructed
    \/ \E ext \in ExtQueries : FromExt(ext)
    \/ \E norm \in DOMAIN _langinfo_from_norm_lang : ConformsTo(norm, Text)
    \/ \E norm \in DOMAIN _langinfo_from_norm_lang : ConformantAttr(norm, "default_encoding")

SpecExt == Init /\ [][NextExt]_vars

\* The extension as the platform's file system compares it.
PlatformExt(ext) == IF CaseInsensitive(platform) THEN Lower(ext) ELSE ext

\* The LangInfo W under key k is registered with extension e and the one
\* base "Text", it is not Text itself, Text is registered and has no bases
\* of its own, and no other LangInfo claims e.
RoundTrip(k, e) ==
    LET db == _langinfo_from_norm_lang
    IN  /\ k \in DOMAIN db
        /\ text \in DOMAIN db
        /\ k # text
        /\ InSeq(e, db[k].exts)
        /\ db[k].conforms_to_bases = <<Text>>
        /\ db[text].conforms_to_bases = <<>>
        /\ \A k2 \in DOMAIN db \ {k} : \A i \in DOMAIN db[k2].exts :
               PlatformExt(db[k2].exts[i]) # PlatformExt(e)

IsFromExt == result.op = "langinfo_from_ext"

\* C6: register-then-lookup round trip.  With W registered with extension e
\* and base "Text" and no other LangInfo claiming e: langinfo_from_ext(e)
\* returns W, W.conforms_to("Text") returns True, and
\* W.conformant_attr("default_encoding") returns Text's default_encoding
\* when W sets none.
C6_RoundTrip ==
    LET db == _langinfo_from_norm_lang
    IN  /\ IsFromExt =>
               \A k \in DOMAIN db :
                   RoundTrip(k, result.ext) => result.out = Return(Some(db[k]))
        /\ (IsConformsTo /\ result.lang = Text) =>
               \A k \in DOMAIN db : \A i \in DOMAIN db[k].exts :
                   (RoundTrip(k, db[k].exts[i]) /\ result.li = db[k])
                       => result.out = Return(TRUE)
        /\ (IsConformantAttr /\ result.attr = "default_encoding") =>
               \A k \in DOMAIN db : \A i \in DOMAIN db[k].exts :
                   (/\ RoundTrip(k, db[k].exts[i])
                    /\ result.li = db[k]
                    /\ db[k].default_encoding = None)
                       => result.out = Return(db[text].default_encoding)

\* C6 case: on a case-insensitive platform W, which inherits utf8 from
\* Text, was found by the upper-case extension it registered.
C6_Witness ==
    /\ IsFromExt
    /\ result.ext = dot_W
    /\ CaseInsensitive(platform)
    /\ \E k \in DOMAIN _langinfo_from_norm_lang :
           /\ RoundTrip(k, dot_W)
           /\ result.out = Return(Some(_langinfo_from_norm_lang[k]))
    /\ _langinfo_from_norm_lang[text].default_encoding = Some(utf8)

-----------------------------------------------------------------------------
(* Doctypes.                                                               *)

P1 == <<80, 49>>
P2 == <<80, 50>>
S1 == <<83, 49>>
S2 == <<83, 50>>
HTML == <<72>>

DoctypeClasses ==
    { [Named(NameA) EXCEPT !.doctypes = << <<HTML, HTML, P1, None>> >>],
      [Named(NameA) EXCEPT !.doctypes = << <<HTML, HTML, P1, S1>> >>],
      [Named(NameA) EXCEPT !.doctypes = << <<HTML, HTML, P1>>, <<HTML, HTML, P2, S2>> >>],
      [Named(NameB) EXCEPT !.doctypes = << <<HTML, HTML, None, S1>> >>],
      [Named(NameB) EXCEPT !.doctypes = << <<HTML, HTML, P1, S2>> >>],
      [Named(NameB) EXCEPT !.doctypes = << <<HTML, HTML, P2, None>>,
                                           <<HTML, HTML, None, S1>> >>] }

p1 == <<112, 49>>
s1 == <<115, 49>>

PublicIds == {None, P1, P2, p1}

SystemIds == {None, S1, S2, s1}

NextDoctype ==
    \/ \E cls \in DoctypeClasses : Register(cls)
    \/ Constructed
    \/ \E public_id \in PublicIds, system_id \in SystemIds :
           FromDoctype(public_id, system_id)

SpecDoctype == InitOn("linux2") /\ [][NextDoctype]_vars

IsFromDoctype == result.op = "langinfo_from_doctype"

\* C7: langinfo_from_doctype returns the LangInfo indexed under public_id
\* whenever public_id is given and indexed, whatever system_id is indexed
\* to; the one indexed under system_id only when public_id is absent or
\* not indexed; None when neither is indexed.
C7_PublicIdFirst ==
    IsFromDoctype =>
        LET pub == _li_from_doctype_public_id[1]
            sys == _li_from_doctype_system_id[1]
        IN  IF result.public_id # None /\ result.public_id \in DOMAIN pub
            THEN result.out = Return(Some(pub[result.public_id]))
            ELSE IF result.system_id # None /\ result.system_id \in DOMAIN sys
            THEN result.out = Return(Some(sys[result.system_id]))
            ELSE result.out = Return(None)

\* C7 case: X registered P1, Y registered S1, and the query for (P1, S1)
\* returned X.
C7_Witness ==
    /\ IsFromDoctype
    /\ result.public_id = P1
    /\ result.system_id = S1
    /\ P1 \in DOMAIN _li_from_doctype_public_id[1]
    /\ S1 \in DOMAIN _li_from_doctype_system_id[1]
    /\ _li_from_doctype_public_id[1][P1] # _li_from_doctype_system_id[1][S1]
    /\ result.out = Return(Some(_li_from_doctype_public_id[1][P1]))

\* The registered LangInfos with a doctype tuple of four fields whose field
\* number n (3: the public id, 4: the system id) is id but for letter case.
Registrants(n, id) ==
    {key \in DOMAIN _langinfo_from_norm_lang :
        \E i \in DOMAIN _langinfo_from_norm_lang[key].doctypes :
            LET dt == _langinfo_from_norm_lang[key].doctypes[i]
            IN  Len(dt) = 4 /\ dt[n] # None /\ Lower(dt[n]) = Lower(id)}

\* C23: doctype ids are compared without regard to letter case:
\* langinfo_from_doctype with a public id (or, no public id given, a system
\* id) that some LangInfo registered in another letter case returns a
\* LangInfo that registered it.
C23_DoctypeCaseInsensitive ==
    IsFromDoctype =>
        LET db == _langinfo_from_norm_lang
        IN  /\ (result.public_id # None /\ Registrants(3, result.public_id) # {}) =>
                   \E key \in Registrants(3, result.public_id) :
                       result.out = Return(Some(db[key]))
            /\ (/\ result.public_id = None
                /\ result.system_id # None
                /\ Registrants(4, result.system_id) # {}) =>
                   \E key \in Registrants(4, result.system_id) :
                       result.out = Return(Some(db[key]))

-----------------------------------------------------------------------------
(* Magic numbers.  The bytes are '#' (35) and \x01; "<H" of "#\x01" is     *)
(* 291.  "zz" is no struct format, and a tuple of two is no magic number.  *)

sharp_one == <<0, "string", <<35, 1>>>>
one_at_1 == <<1, "string", <<1>>>>
empty_at_2 == <<2, "string", <<>>>>
shebang == <<0, "regex", Regex(TRUE, <<35>>)>>
one_from_1 == <<1, "regex", Regex(FALSE, <<1>>)>>
short_291 == <<0, "<H", 291>>
byte_one_at_1 == <<1, "B", 1>>
bad_format == <<0, "zz", 5>>
bad_arity == <<0, "string">>

MagicClasses ==
    { [Named(NameA) EXCEPT !.magic_numbers = <<sharp_one>>],
      [Named(NameA) EXCEPT !.magic_numbers = <<short_291, one_at_1>>],
      [Named(NameA) EXCEPT !.magic_numbers = <<bad_format, sharp_one>>],
      [Named(NameA) EXCEPT !.magic_numbers = <<bad_arity, one_at_1>>],
      [Named(NameA) EXCEPT !.magic_numbers = <<short_291, bad_format>>],
      [Named(NameA) EXCEPT !.magic_numbers = <<empty_at_2>>],
      [Named(NameB) EXCEPT !.magic_numbers = <<sharp_one>>],
      [Named(NameB) EXCEPT !.magic_numbers = <<shebang>>],
      [Named(NameB) EXCEPT !.magic_numbers = <<one_from_1, byte_one_at_1>>],
      [Named(NameB) EXCEPT !.magic_numbers = <<bad_format>>],
      [Named(NameB) EXCEPT !.magic_numbers = <<one_at_1, bad_arity>>] }

MagicBytes == {1, 35}

Heads == UNION {[1..n -> MagicBytes] : n \in 0..MaxHead}

NextMagic ==
    \/ \E cls \in MagicClasses : Register(cls)
    \/ Constructed
    \/ \E head_bytes \in Heads, shebang_only \in BOOLEAN : FromMagic(head_bytes, shebang_only)

SpecMagic == InitOn("linux2") /\ [][NextMagic]_vars

\* The magic number unpacks into three fields and names a format there is.
WellFormed(mn) ==
    /\ Len(mn) = 3
    /\ mn[2] \in {"string", "regex"} \/ calcsize(mn[2]).raised = None

\* The bytes a well-formed magic number needs from its offset on.
RequiredLength(mn) ==
    CASE mn[2] = "string" -> Len(mn[3])
      [] mn[2] = "regex" -> Len(mn[3].lit)
      [] OTHER -> calcsize(mn[2]).val

\* The window ends before offset plus the required length.
TooShort(mn, head_bytes) == Len(head_bytes) < mn[1] + RequiredLength(mn)

\* A well-formed magic number matches the window.
Matches(mn, head_bytes) ==
    CASE mn[2] = "string" -> Slice(head_bytes, mn[1], mn[1] + Len(mn[3])) = mn[3]
      [] mn[2] = "regex" -> search(mn[3], head_bytes, mn[1])
      [] OTHER ->
            LET bytes == Slice(head_bytes, mn[1], mn[1] + calcsize(mn[2]).val)
            IN  Len(bytes) = calcsize(mn[2]).val /\ unpack(mn[2], bytes) = Return(mn[3])

\* The query looks at the magic number: all of them, or the regexes only.
Probed(mn, shebang_only) == ~shebang_only \/ mn[2] = "regex"

\* A magic number of li that the query probes matches the window.
HasMatch(li, head_bytes, shebang_only) ==
    \E i \in DOMAIN li.magic_numbers :
        /\ WellFormed(li.magic_numbers[i])
        /\ Probed(li.magic_numbers[i], shebang_only)
        /\ Matches(li.magic_numbers[i], head_bytes)

\* The LangInfo under k1 was registered before the one under k2.
Before(k1, k2) ==
    \E i, j \in DOMAIN load_order : i < j /\ load_order[i] = k1 /\ load_order[j] = k2

KeyOf(li) == _norm_lang_from_lang(li.name)

IsFromMagic == result.op = "langinfo_from_magic"

\* C8: magic probing follows registration order: of two LangInfos with a
\* magic number matching the window, langinfo_from_magic returns the one
\* registered first, and the magic table lists the magic numbers in the
\* order their LangInfos were registered.
C8_RegistrationOrder ==
    LET db == _langinfo_from_norm_lang
    IN  /\ (IsFromMagic /\ result.out.raised = None) =>
               \A k1, k2 \in DOMAIN db :
                   (/\ Before(k1, k2)
                    /\ HasMatch(db[k1], result.head_bytes, result.shebang_only)
                    /\ HasMatch(db[k2], result.head_bytes, result.shebang_only))
                       => result.out.val = Some(db[k1])
        /\ _magic_table # None =>
               \A i, j \in DOMAIN _magic_table[1] :
                   i < j => ~Before(KeyOf(_magic_table[1][j][2]), KeyOf(_magic_table[1][i][2]))

\* C9 as stated: a well-formed magic number of any format, given a window
\* shorter than its offset plus its required length, neither matches nor
\* raises, and when the table holds such magic numbers only the query
\* returns None.
C9_ShortWindowIsNoMatch ==
    IsFromMagic =>
        LET table == _magic_table[1]
            short(i) == WellFormed(table[i][1]) /\ TooShort(table[i][1], result.head_bytes)
        IN  /\ \A i \in DOMAIN table : short(i) => result.out.at # i
            /\ (\A i \in DOMAIN table : short(i))
                   => result.out = MagicOutcome(Return(None), 0)

\* C9 amended: the same for the magic numbers whose required length is at
\* least one byte.
C9_ShortWindowNonEmptyPattern ==
    IsFromMagic =>
        LET table == _magic_table[1]
            short(i) == /\ WellFormed(table[i][1])
                        /\ RequiredLength(table[i][1]) >= 1
                        /\ TooShort(table[i][1], result.head_bytes)
        IN  /\ \A i \in DOMAIN table : short(i) => result.out.at # i
            /\ (\A i \in DOMAIN table : short(i))
                   => result.out = MagicOutcome(Return(None), 0)

\* C9 case: the window held one byte of the two a "<H" magic number at
\* offset 0 needs and a regex from offset 1 had nothing to search; both were
\* passed over, one before a later matching entry and one in a query that
\* returned None.
C9_Witness ==
    /\ IsFromMagic
    /\ Len(result.head_bytes) = 1
    /\ ~result.shebang_only
    /\ \/ \E i \in DOMAIN _magic_table[1] :
              /\ _magic_table[1][i][1] = short_291
              /\ result.out.raised = None
              /\ result.out.at > i
       \/ /\ \A i \in DOMAIN _magic_table[1] :
                 _magic_table[1][i][1] \in {one_from_1, byte_one_at_1}
          /\ _magic_table[1] # <<>>
          /\ result.out = MagicOutcome(Return(None), 0)

\* C10: a malformed magic number (wrong arity, or a format that is no
\* struct format) is dropped: langinfo_from_magic does not raise, never
\* returns a LangInfo on its strength, and still returns a match when a
\* well-formed magic number it probes matches.
C10_MalformedDropped ==
    IsFromMagic =>
        LET table == _magic_table[1]
        IN  /\ result.out.raised = None
            /\ result.out.val # None => WellFormed(table[result.out.at][1])
            /\ (\E i \in DOMAIN table :
                    /\ WellFormed(table[i][1])
                    /\ Probed(table[i][1], result.shebang_only)
                    /\ Matches(table[i][1], result.head_bytes))
                   => result.out.val # None

\* The entries of the magic table that are regexes found in the window.
RegexHits(table, head_bytes) ==
    {i \in DOMAIN table :
        /\ Len(table[i][1]) = 3
        /\ table[i][1][2] = "regex"
        /\ search(table[i][1][3], head_bytes, table[i][1][1])}

\* C22: with shebang_only set, langinfo_from_magic returns the LangInfo of
\* the first regex entry of the magic table found in the window, None when
\* there is none, and raises nothing: string and struct entries are passed
\* over unevaluated, matching or malformed as they may be.
C22_ShebangOnlyRegex ==
    (IsFromMagic /\ result.shebang_only) =>
        LET table == _magic_table[1]
            hits == RegexHits(table, result.head_bytes)
        IN  /\ result.out.raised = None
            /\ IF hits = {}
               THEN result.out.val = None
               ELSE \E i \in hits :
                        /\ \A j \in hits : i <= j
                        /\ result.out.at = i
                        /\ result.out.val = Some(table[i][2])

\* C22 case: a string entry that matches the window and an entry of no
\* struct format come before the regex entry that was returned; or only a
\* string entry matches and None was returned.
C22_Witness ==
    /\ IsFromMagic
    /\ result.shebang_only
    /\ LET table == _magic_table[1]
       IN  \/ /\ result.out.val # None
              /\ \E i, j \in 1..(result.out.at - 1) :
                     /\ table[i][1] = bad_format
                     /\ table[j][1] = sharp_one
                     /\ Matches(sharp_one, result.head_bytes)
           \/ /\ result.out.val = None
              /\ \E i, j \in DOMAIN table :
                     /\ table[i][1] = one_at_1
                     /\ Matches(one_at_1, result.head_bytes)
                     /\ table[j][1] = shebang

\* The bytes of the window at the positions offset <= p < offset + width,
\* as far as the window has them.
WindowSlice(head_bytes, offset, width) ==
    LET n == IF Len(head_bytes) >= offset + width THEN width
             ELSE IF Len(head_bytes) > offset THEN Len(head_bytes) - offset
             ELSE 0
    IN  [p \in 1..n |-> head_bytes[offset + p]]

\* A well-formed magic number matches the window: its string is the slice
\* at its offset; its struct format finds a slice of full width there that
\* decodes to its value; its regex is found from its offset on.
RuleMatches(mn, head_bytes) ==
    CASE mn[2] = "string" -> WindowSlice(head_bytes, mn[1], Len(mn[3])) = mn[3]
      [] mn[2] = "regex" -> search(mn[3], head_bytes, mn[1])
      [] OTHER ->
            LET width == calcsize(mn[2]).val
                slice == WindowSlice(head_bytes, mn[1], width)
            IN  Len(slice) = width /\ unpack(mn[2], slice) = Return(mn[3])

\* C28: langinfo_from_magic is sound and complete over the well-formed
\* magic numbers: the LangInfo it returns has a well-formed magic number
\* that matches the window, and it returns None only when no well-formed
\* magic number of the table that the call probes matches the window.
C28_SoundAndComplete ==
    IsFromMagic =>
        LET table == _magic_table[1]
        IN  /\ result.out.val # None =>
                   /\ result.out.raised = None
                   /\ result.out.val = Some(table[result.out.at][2])
                   /\ WellFormed(table[result.out.at][1])
                   /\ Probed(table[result.out.at][1], result.shebang_only)
                   /\ RuleMatches(table[result.out.at][1], result.head_bytes)
                   /\ InSeq(table[result.out.at][1], result.out.val[1].magic_numbers)
            /\ (result.out.raised = None /\ result.out.val = None) =>
                   \A i \in DOMAIN table :
                       (WellFormed(table[i][1]) /\ Probed(table[i][1], result.shebang_only))
                           => ~RuleMatches(table[i][1], result.head_bytes)

\* C28 case: a window of three bytes held the value 291 of a "<H" magic
\* number, in a table of three entries or more; or no entry of such a
\* table matched it and None was returned.
C28_Witness ==
    /\ IsFromMagic
    /\ ~result.shebang_only
    /\ Len(result.head_bytes) = 3
    /\ Len(_magic_table[1]) >= 3
    /\ \/ /\ result.out.val # None
          /\ _magic_table[1][result.out.at][1] = short_291
       \/ /\ result.out = MagicOutcome(Return(None), 0)
          /\ \E i \in DOMAIN _magic_table[1] : _magic_table[1][i][1] = sharp_one

Lookups ==
    {"langinfo_from_ext", "langinfo_from_filename", "langinfo_from_magic",
     "langinfo_from_doctype", "langinfo_from_emacs_mode"}

\* C13: no lookup by extension, filename, magic number, doctype or Emacs mode
\* raises, whatever the head bytes and whatever magic numbers the
\* registered LangInfos declare.
C13_LookupsNeverRaise ==
    result.op \in Lookups => result.out.raised = None

-----------------------------------------------------------------------------
(* Extensions and letter case.                                             *)

\* The registered LangInfos that claim ext, as the platform compares it.
Claimants(ext) ==
    {k \in DOMAIN _langinfo_from_norm_lang :
        \E i \in DOMAIN _langinfo_from_norm_lang[k].exts :
            PlatformExt(_langinfo_from_norm_lang[k].exts[i]) = PlatformExt(ext)}

\* C11: on win32 and darwin langinfo_from_ext answers alike for extensions
\* that differ in letter case only, both the indexed and the queried
\* extension being lower-cased; elsewhere the extension is matched exactly.
\* Either way the answer is a LangInfo that claims the extension as the
\* platform compares it, and there is an answer whenever one claims it, so
\* that LangInfos claiming ".w" and ".W" are both found where case counts.
C11_ExtensionCase ==
    IsFromExt =>
        /\ result.out.raised = None
        /\ \A ext2 \in ExtQueries :
               (CaseInsensitive(platform) /\ Lower(ext2) = Lower(result.ext))
                   => result.out = langinfo_from_ext(tables, platform, ext2)
        /\ \A k \in DOMAIN _langinfo_from_norm_lang :
               result.out.val = Some(_langinfo_from_norm_lang[k]) => k \in Claimants(result.ext)
        /\ Claimants(result.ext) # {} => result.out.val # None

\* C11 case: where case counts A claims ".W" and B claims ".w", each alone,
\* and the query for ".W" returned A; or where it does not count a query
\* for ".W" returned the LangInfo that registered ".w".
C11_Witness ==
    /\ IsFromExt
    /\ result.ext = dot_W
    /\ \E k \in DOMAIN _langinfo_from_norm_lang :
           /\ result.out.val = Some(_langinfo_from_norm_lang[k])
           /\ IF CaseInsensitive(platform)
              THEN _langinfo_from_norm_lang[k].exts = <<dot_w>>
              ELSE /\ Claimants(dot_W) = {k}
                   /\ Claimants(dot_w) # {}
                   /\ k \notin Claimants(dot_w)

\* C18: when several LangInfos claim the extension asked for,
\* langinfo_from_ext returns the one registered last, and all of them are
\* still in the catalog.
C18_LaterRegisteredWins ==
    IsFromExt =>
        \A key \in Claimants(result.ext) :
            (\A other \in Claimants(result.ext) \ {key} : Before(other, key))
                => result.out = Return(Some(_langinfo_from_norm_lang[key]))

-----------------------------------------------------------------------------
(* The catalog: names that differ in letter case, a class that replaces    *)
(* the built-in Text, a class that sets no name, and Emacs modes.          *)

name_a == <<97>>
name_b == <<98>>
TEXT == <<84, 69, 88, 84>>
mode_x == <<120>>

CatalogClasses ==
    { [Named(NameA) EXCEPT !.emacs_modes = <<NameB>>],
      [Named(name_a) EXCEPT !.default_encoding = Some(ascii)],
      [Named(NameB) EXCEPT !.emacs_modes = <<mode_x>>],
      [Named(NameB) EXCEPT !.default_encoding = Some(utf8)],
      [Named(text) EXCEPT !.emacs_modes = <<mode_x, TEXT>>],
      [Named(Text) EXCEPT !.default_encoding = Some(utf8)],
      [LangInfo EXCEPT !.emacs_modes = <<mode_x>>] }

CatalogNames == {NameA, name_a, NameB, name_b, Text, text, TEXT, Ghost, mode_x}

NextCatalog ==
    \/ \E cls \in CatalogClasses : Register(cls)
    \/ SkipModule
    \/ Constructed
    \/ \E lang \in CatalogNames : FromLang(lang)
    \/ \E emacs_mode \in CatalogNames : FromEmacsMode(emacs_mode)

SpecCatalog == InitOn("linux2") /\ [][NextCatalog]_vars

IsFromLang == result.op = "langinfo_from_lang"

\* C12: langinfo_from_lang(name) returns the LangInfo registered under the
\* lower-cased name, so every letter-case variant of a registered name
\* returns that LangInfo, and it raises LangInfoError exactly when none is
\* registered under it.
C12_ResolveByName ==
    IsFromLang =>
        LET db == _langinfo_from_norm_lang
            same == {k \in DOMAIN db : Lower(db[k].name) = Lower(result.lang)}
        IN  /\ \A k \in same : result.out = Return(db[k])
            /\ same = {} <=> result.out = Raise("LangInfoError")
            /\ result.out.raised \in {None, Some("LangInfoError")}

\* C12 case: "a" and "TEXT" were asked for and the LangInfos named "A" and
\* "Text" came back; or a name nothing is registered under was asked for.
C12_Witness ==
    /\ IsFromLang
    /\ \/ /\ result.lang = name_a
          /\ result.out.raised = None
          /\ result.out.val.name = NameA
       \/ /\ result.lang = TEXT
          /\ result.out.raised = None
          /\ result.out.val.name = Text


\* The step registered a class.
Registered ==
    /\ result'.op = "_load_dir"
    /\ "cls" \in DOMAIN result'
    /\ result'.out.raised = None

LastRegisteredWins ==
    LET db == _langinfo_from_norm_lang
    IN  /\ IF Registered
           THEN LET norm_lang == _norm_lang_from_lang(result'.cls.name)
                IN  /\ DOMAIN db' = DOMAIN db \cup {norm_lang}
                    /\ db'[norm_lang] = result'.cls
                    /\ \A k \in DOMAIN db \ {norm_lang} : db'[k] = db[k]
           ELSE db' = db
        /\ \A k \in DOMAIN db' : _norm_lang_from_lang(db'[k].name) = k
        /\ result'.op = "langinfo_from_lang" =>
               \A k \in DOMAIN db' :
                   k = _norm_lang_from_lang(result'.lang) => result'.out = Return(db'[k])

\* C14: the catalog holds one LangInfo per lower-cased name, the last one
\* registered under it: a registration puts its class under the lower-cased
\* name, replacing the one held there (the built-in Text included), and
\* leaves every other entry alone; nothing else changes the catalog; and
\* langinfo_from_lang returns the entry held.
C14_LastRegisteredWins == [][LastRegisteredWins]_vars

\* C14 case: a class named "text" was registered after the built-in Text
\* and after another class of that name, and langinfo_from_lang("Text")
\* returned it.
C14_Witness ==
    /\ IsFromLang
    /\ result.lang = Text
    /\ result.out = Return([Named(text) EXCEPT !.emacs_modes = <<mode_x, TEXT>>])
    /\ _langinfo_from_norm_lang[text] # TextLangInfo
    /\ DOMAIN _langinfo_from_norm_lang = {text, name_a}
    /\ _langinfo_from_norm_lang[name_a].name = name_a


\* C15: Database() always completes: loading a module never raises out of
\* _load_dir, neither when its import fails nor when a LangInfo class in it
\* sets no name.
C15_AssemblyCompletes ==
    /\ pc # "raised"
    /\ result.op = "_load_dir" => result.out.raised = None


IsFromEmacsMode == result.op = "langinfo_from_emacs_mode"

\* The keys of the LangInfos that list mode among their emacs_modes.
Aliased(mode) ==
    {k \in DOMAIN _langinfo_from_norm_lang :
        InSeq(mode, _langinfo_from_norm_lang[k].emacs_modes)}

\* C17: langinfo_from_emacs_mode(mode) returns the LangInfo the mode table
\* holds under mode, one that lists mode among its emacs_modes, whenever
\* some LangInfo lists it, also when another LangInfo is named mode;
\* otherwise the LangInfo whose lower-cased name is the lower-cased mode;
\* otherwise None.
C17_AliasThenName ==
    IsFromEmacsMode =>
        LET db == _langinfo_from_norm_lang
            mode == result.emacs_mode
            table == _li_from_emacs_mode[1]
        IN  /\ DOMAIN table = {m \in CatalogNames : Aliased(m) # {}}
            /\ IF Aliased(mode) # {}
               THEN /\ result.out = Return(Some(table[mode]))
                    /\ \E k \in Aliased(mode) : table[mode] = db[k]
               ELSE IF \E k \in DOMAIN db : Lower(db[k].name) = Lower(mode)
               THEN \E k \in DOMAIN db : /\ Lower(db[k].name) = Lower(mode)
                                         /\ result.out = Return(Some(db[k]))
               ELSE result.out = Return(None)

\* C17 case: "B" is an Emacs mode of the LangInfo named "A" and the name of
\* another LangInfo, and langinfo_from_emacs_mode("B") returned "A".
C17_Witness ==
    /\ IsFromEmacsMode
    /\ result.emacs_mode = NameB
    /\ name_b \in DOMAIN _langinfo_from_norm_lang
    /\ _langinfo_from_norm_lang[name_b].name = NameB
    /\ result.out.val # None
    /\ result.out.val[1].name = NameA


-----------------------------------------------------------------------------
(* File names: exact names and compiled patterns.                          *)

m == <<109>>
k == <<107>>
mk == <<109, 107>>
NameC == <<67>>

FilenameClasses ==
    { [Named(NameA) EXCEPT !.filename_patterns = <<Regex(TRUE, m)>>],
      [Named(NameA) EXCEPT !.filename_patterns = <<Str(mk)>>],
      [Named(NameB) EXCEPT !.filename_patterns = <<Regex(FALSE, k)>>],
      [Named(NameB) EXCEPT !.filename_patterns = <<Regex(TRUE, m), Str(k)>>],
      [Named(NameC) EXCEPT !.filename_patterns = <<Regex(FALSE, k), Regex(FALSE, m)>>] }

Filenames == {m, k, mk, <<>>}

NextFilename ==
    \/ \E cls \in FilenameClasses : Register(cls)
    \/ Constructed
    \/ \E filename \in Filenames : FromFilename(filename)

SpecFilename == InitOn("linux2") /\ [][NextFilename]_vars

IsFromFilename == result.op = "langinfo_from_filename"

\* li lists filename as an exact name.
HasExact(li, filename) == InSeq(Str(filename), li.filename_patterns)

\* A compiled pattern of li is found in filename.
HasPatternMatch(li, filename) ==
    \E i \in DOMAIN li.filename_patterns :
        /\ li.filename_patterns[i].kind = "regex"
        /\ search(li.filename_patterns[i], filename, 0)

\* C16: langinfo_from_filename(name) returns a LangInfo that lists name as
\* an exact name when there is one, also when a compiled pattern matches
\* name; otherwise, of the LangInfos with a compiled pattern matching name,
\* the one registered first; otherwise None.
C16_ExactThenFirstPattern ==
    IsFromFilename =>
        LET db == _langinfo_from_norm_lang
            name == result.filename
            exact == {key \in DOMAIN db : HasExact(db[key], name)}
            matching == {key \in DOMAIN db : HasPatternMatch(db[key], name)}
        IN  /\ result.out.raised = None
            /\ IF exact # {}
               THEN \E key \in exact : result.out.val = Some(db[key])
               ELSE IF matching # {}
               THEN \E key \in matching :
                        /\ \A other \in matching \ {key} : Before(key, other)
                        /\ result.out.val = Some(db[key])
               ELSE result.out.val = None


-----------------------------------------------------------------------------
(* Loading another directory after the tables were built.                  *)

ReloadClasses ==
    { [Named(NameA) EXCEPT !.exts = <<dot_w>>],
      [Named(NameB) EXCEPT !.exts = <<dot_w>>],
      [Named(NameA) EXCEPT !.exts = <<dot_b>>, !.emacs_modes = <<mode_x>>] }

NextReload ==
    \/ \E cls \in ReloadClasses : Register(cls)
    \/ Constructed
    \/ \E cls \in ReloadClasses : LoadDirLater(cls)
    \/ \E ext \in ExtQueries : FromExt(ext)
    \/ \E emacs_mode \in {mode_x, NameA} : FromEmacsMode(emacs_mode)

SpecReload == InitOn("linux2") /\ [][NextReload]_vars

\* C19: a lookup answers from the catalog as it is when the lookup is made,
\* also when LangInfos were registered after the tables were first built:
\* langinfo_from_ext returns what tables built from the present catalog
\* return.
C19_AnswersFromCurrentCatalog ==
    IsFromExt =>
        \E order \in Perms(DOMAIN _langinfo_from_norm_lang) :
            result.out = langinfo_from_ext(_build_tables(_langinfo_from_norm_lang, order,
                                                         platform),
                                           platform, result.ext)


\* C29: a LangInfo that a lookup returns is the one the catalog holds under
\* its lower-cased name at the time of the lookup, never one that was
\* replaced or is not registered.
C29_ReturnsRegistered ==
    (result.op \in Lookups /\ result.out.raised = None /\ result.out.val # None) =>
        LET li == result.out.val[1]
            norm_lang == _norm_lang_from_lang(li.name)
        IN  /\ norm_lang \in DOMAIN _langinfo_from_norm_lang
            /\ _langinfo_from_norm_lang[norm_lang] = li

-----------------------------------------------------------------------------
(* Threads that make their first lookups at the same time.                 *)

dot_txt == <<46, 116, 120, 116>>

ThreadClasses ==
    { [Named(NameA) EXCEPT !.exts = <<dot_w>>, !.magic_numbers = <<sharp_one>>],
      [Named(NameB) EXCEPT !.exts = <<dot_w>>] }

ThreadQueries == {dot_w, dot_txt}

NextThreads ==
    \/ \E cls \in ThreadClasses : Register(cls)
    \/ Constructed
    \/ \E t \in Threads, ext \in ThreadQueries : T_Call(t, ext)
    \/ \E t \in Threads : T_Check(t)
    \/ \E t \in Threads : T_Reset(t)
    \/ \E t \in Threads : T_Fill(t)
    \/ \E t \in Threads : T_Lookup(t)

SpecThreads == InitOn("linux2") /\ [][NextThreads]_vars

\* C20: the first build happens once, whatever the number of threads making
\* their first lookup, and every lookup returns what the finished tables
\* return.
C20_OneTimeInitialization ==
    /\ Cardinality({t \in Threads : threads[t] # Idle /\ threads[t].built}) <= 1
    /\ \A t \in Threads :
           threads[t].at = "done" =>
               threads[t].out =
                   langinfo_from_ext(_build_tables(_langinfo_from_norm_lang, values_order,
                                                   platform),
                                     platform, threads[t].ext)


-----------------------------------------------------------------------------
(* Queries of every kind on one database.                                  *)

QueryClasses ==
    { [Named(NameA) EXCEPT !.exts = <<dot_w>>,
                           !.filename_patterns = <<Regex(TRUE, m), Str(k)>>,
                           !.magic_numbers = <<shebang>>,
                           !.doctypes = << <<HTML, HTML, P1, S1>> >>,
                           !.emacs_modes = <<mode_x>>,
                           !.conforms_to_bases = <<Text>>],
      [Named(NameB) EXCEPT !.exts = <<dot_w>>,
                           !.magic_numbers = <<sharp_one>>,
                           !.default_encoding = Some(utf8)] }

NextQueries ==
    \/ \E cls \in QueryClasses : Register(cls)
    \/ Constructed
    \/ \E lang \in {NameA, Ghost} : FromLang(lang)
    \/ \E ext \in {dot_w, dot_b} : FromExt(ext)
    \/ \E filename \in {m, k} : FromFilename(filename)
    \/ \E head_bytes \in {<<>>, <<35, 1>>}, shebang_only \in BOOLEAN :
           FromMagic(head_bytes, shebang_only)
    \/ \E public_id \in {None, P1}, system_id \in {None, S1} :
           FromDoctype(public_id, system_id)
    \/ \E emacs_mode \in {mode_x, NameA} : FromEmacsMode(emacs_mode)
    \/ \E norm \in DOMAIN _langinfo_from_norm_lang : ConformsTo(norm, Text)
    \/ \E norm \in DOMAIN _langinfo_from_norm_lang : ConformantAttr(norm, "default_encoding")

SpecQueries == InitOn("linux2") /\ [][NextQueries]_vars

Queries == Lookups \cup {"langinfo_from_lang", "conforms_to", "conformant_attr"}

AllNone ==
    /\ _langinfo_from_ext = None
    /\ _langinfo_from_filename = None
    /\ _langinfo_from_filename_re = None
    /\ _magic_table = None
    /\ _li_from_doctype_public_id = None
    /\ _li_from_doctype_system_id = None
    /\ _li_from_emacs_mode = None

AllBuilt ==
    /\ _langinfo_from_ext # None
    /\ _langinfo_from_filename # None
    /\ _langinfo_from_filename_re # None
    /\ _magic_table # None
    /\ _li_from_doctype_public_id # None
    /\ _li_from_doctype_system_id # None
    /\ _li_from_emacs_mode # None

PureRead ==
    result'.op \in Queries =>
        /\ _langinfo_from_norm_lang' = _langinfo_from_norm_lang
        /\ values_order' = values_order
        /\ ~AllNone => tables' = tables
        /\ ~AllNone' => tables' = _build_tables(_langinfo_from_norm_lang, values_order, platform)

\* C24: a query reads only: no query of any kind changes the catalog, no
\* query changes a table once the tables are built, and the tables are at
\* any time what a build from the catalog yields.
C24_PureReads == [][PureRead]_vars

\* C24 case: with the tables built and three LangInfos registered, a
\* LangInfo was asked whether it conforms to a base of its own.
C24_Witness ==
    /\ AllBuilt
    /\ Cardinality(DOMAIN _langinfo_from_norm_lang) = 3
    /\ _magic_table[1] # <<>>
    /\ IsConformsTo
    /\ result.li.name = NameA
    /\ result.out = Return(TRUE)

BuildOnce ==
    /\ AllNone \/ AllBuilt
    /\ AllNone' \/ AllBuilt'
    /\ tables' # tables => (AllNone /\ AllBuilt' /\ result'.op \in Lookups)
    /\ result'.op \in Lookups => AllBuilt'
    /\ result'.op \notin Lookups => tables' = tables

\* C27: with one thread and an unchanged catalog the tables are built once,
\* by the first lookup that uses a table, of whatever kind: the tables are
\* all None or all built, they change only in a lookup that finds them all
\* None and leaves them all built, and every lookup leaves them built.
C27_BuildOnce == [][BuildOnce]_vars

\* C27 case: a lookup by Emacs mode found the tables (those of extensions
\* and magic numbers too) built.
C27_Witness ==
    /\ IsFromEmacsMode
    /\ AllBuilt
    /\ Cardinality(DOMAIN _langinfo_from_norm_lang) = 3
    /\ DOMAIN _langinfo_from_ext[1] # {}
    /\ _magic_table[1] # <<>>
    /\ result.out.val # None


-----------------------------------------------------------------------------
(* Doctype tuples that do not unpack into four fields.                     *)

MalformedClasses ==
    { [Named(NameA) EXCEPT !.doctypes = << <<HTML, HTML, P1>>, <<HTML, HTML, P2, S2>> >>,
                           !.exts = <<dot_w>>,
                           !.filename_patterns = <<Str(k)>>,
                           !.magic_numbers = <<shebang>>,
                           !.emacs_modes = <<mode_x>>],
      [Named(NameA) EXCEPT !.doctypes = << <<HTML, HTML, P1, S1>> >>],
      [Named(NameB) EXCEPT !.doctypes = << <<HTML>>, <<HTML, HTML, P1, None>> >>,
                           !.exts = <<dot_b>>],
      [Named(NameB) EXCEPT !.exts = <<dot_w>>],
      [Named(NameC) EXCEPT !.doctypes = << <<HTML, HTML, None, S1>> >>] }

NextMalformed ==
    \/ \E cls \in MalformedClasses : Register(cls)
    \/ Constructed
    \/ \E public_id \in {None, P1, P2}, system_id \in {None, S1, S2} :
           FromDoctype(public_id, system_id)
    \/ \E ext \in {dot_w, dot_b} : FromExt(ext)
    \/ FromEmacsMode(mode_x)

SpecMalformed == InitOn("linux2") /\ [][NextMalformed]_vars

\* li has a doctype tuple that does not unpack into four fields.
HasBadDoctype(li) == \E i \in DOMAIN li.doctypes : Len(li.doctypes[i]) # 4

\* Every entry of li but its doctype tuples of wrong arity is in its table.
Indexed(li) ==
    /\ \A i \in DOMAIN li.doctypes :
           Len(li.doctypes[i]) = 4 =>
               /\ li.doctypes[i][3] # None =>
                      li.doctypes[i][3] \in DOMAIN _li_from_doctype_public_id[1]
               /\ li.doctypes[i][4] # None =>
                      li.doctypes[i][4] \in DOMAIN _li_from_doctype_system_id[1]
    /\ \A i \in DOMAIN li.exts : li.exts[i] \in DOMAIN _langinfo_from_ext[1]
    /\ \A i \in DOMAIN li.filename_patterns :
           IF li.filename_patterns[i].kind = "str"
           THEN li.filename_patterns[i].s \in DOMAIN _langinfo_from_filename[1]
           ELSE li.filename_patterns[i] \in DOMAIN _langinfo_from_filename_re[1]
    /\ \A i \in DOMAIN li.magic_numbers : InSeq(<<li.magic_numbers[i], li>>, _magic_table[1])
    /\ \A i \in DOMAIN li.emacs_modes : li.emacs_modes[i] \in DOMAIN _li_from_emacs_mode[1]

\* C26: a doctype tuple of wrong arity is passed over and the build goes
\* on: once the tables are built, every other entry of its LangInfo and
\* every entry of every other LangInfo is in its table, and a lookup by a
\* public id that only one LangInfo registered returns that LangInfo.
C26_BadDoctypeSkipped ==
    LET db == _langinfo_from_norm_lang
    IN  /\ AllBuilt => \A key \in DOMAIN db : Indexed(db[key])
        /\ \A t \in {_li_from_doctype_public_id, _li_from_doctype_system_id} :
               t # None => \A id \in DOMAIN t[1] : \E key \in DOMAIN db : t[1][id] = db[key]
        /\ (IsFromDoctype /\ result.public_id # None) =>
               \A key \in DOMAIN db :
                   Registrants(3, result.public_id) = {key}
                       => result.out = Return(Some(db[key]))

\* C26 case: the LangInfo "A" has a tuple of three fields before the tuple
\* that registers P2, "B" has a tuple of one field and comes after "A" in
\* the pass, and the lookup by P2 returned "A".
C26_Witness ==
    /\ IsFromDoctype
    /\ result.public_id = P2
    /\ DOMAIN _langinfo_from_norm_lang = {name_a, name_b, text}
    /\ HasBadDoctype(_langinfo_from_norm_lang[name_a])
    /\ HasBadDoctype(_langinfo_from_norm_lang[name_b])
    /\ \E i, j \in DOMAIN values_order :
           i < j /\ values_order[i] = name_a /\ values_order[j] = name_b
    /\ dot_b \in DOMAIN _langinfo_from_ext[1]
    /\ P1 \in DOMAIN _li_from_doctype_public_id[1]
    /\ result.out = Return(Some(_langinfo_from_norm_lang[name_a]))


-----------------------------------------------------------------------------
(* Databases made one after the other from one list of directories.        *)

d1 == "d1"
d2 == "d2"

CallerDirs == {None, Some(<<>>), Some(<<d1>>), Some(<<d1, d2>>), Some(<<d2, d1>>)}

\* A caller holding a list of directories, before it makes a Database.
InitDirs ==
    /\ platform = "linux2"
    /\ pc = "new"
    /\ dirs \in CallerDirs
    /\ _langinfo_from_norm_lang = <<>>
    /\ values_order = <<>>
    /\ load_order = <<>>
    /\ _langinfo_from_ext = None
    /\ _langinfo_from_filename = None
    /\ _langinfo_from_filename_re = None
    /\ _magic_table = None
    /\ _li_from_doctype_public_id = None
    /\ _li_from_doctype_system_id = None
    /\ _li_from_emacs_mode = None
    /\ threads = [t \in Threads |-> Idle]
    /\ result = [op |-> "caller"]

NextDirs ==
    \/ __init__
    \/ \E cls \in ReloadClasses : Register(cls)
    \/ Constructed
    \/ \E ext \in ExtQueries : FromExt(ext)

SpecDirs == InitDirs /\ [][NextDirs]_vars

\* C30: Database(dirs) leaves the caller's list as it was, and scans the
\* directory of the module once, before the directories of the list, also
\* when the list has been passed to Database before.
C30_CallerListUnchanged ==
    result.op = "Database" =>
        /\ dirs = result.dirs
        /\ result.scanned[1] = module_dir
        /\ \A i \in DOMAIN result.scanned : result.scanned[i] = module_dir => i = 1

-----------------------------------------------------------------------------
(* All operations over all the classes above.                              *)

Next ==
    \/ NextConf
    \/ NextExt
    \/ NextDoctype
    \/ NextMagic
    \/ NextCatalog
    \/ NextFilename
    \/ NextReload
    \/ NextThreads
    \/ NextQueries
    \/ NextMalformed
    \/ NextDirs

Spec == Init /\ [][Next]_vars

====
